---- MODULE Spec2Model ----
(***************************************************************************)
(* CryptoBuddy's CoinGecko helper (coin_gecko.py): symbol resolution, the  *)
(* in-memory TTL cache, the retrying HTTP wrapper and the public lookups.  *)
(*                                                                         *)
(* Python values are modelled as tagged records: a str is a sequence of    *)
(* one-character strings, None is PyNone, a number is Num(n), a dict is    *)
(* Dict(f) with f a function from str to value, a list is List(s).         *)
(* Time is counted in tenths of a second.                                  *)
(***************************************************************************)
EXTENDS Integers, Sequences, FiniteSets, TLC

VARIABLES
    now,      \* time.time(), in tenths of a second
    _CACHE,   \* key -> <<timestamp, data>>
    last,     \* the call made last: its arguments, what it did and returned
    stored,   \* key -> the time of the most recent _cache_set for it
    threads,  \* concurrent callers: the call they make and where each one is
    session_state  \* the web front-end: session -> its st.session_state.messages

vars == <<now, _CACHE, last, stored, threads, session_state>>

(* ------------------------------------------------------------------ *)
(* Python str operations                                               *)
(* ------------------------------------------------------------------ *)

UpperChars == <<"A","B","C","D","E","F","G","H","I","J","K","L","M",
                "N","O","P","Q","R","S","T","U","V","W","X","Y","Z">>

LowerChars == <<"a","b","c","d","e","f","g","h","i","j","k","l","m",
                "n","o","p","q","r","s","t","u","v","w","x","y","z">>

\* the characters str.strip() removes from both ends
Whitespace == {" ", "\t"}

\* the other characters that occur, in code-point order
OtherChars == <<"\t", " ", ",", "-", "2", ":">>

\* code-point order of the characters: what sorted() compares by
Alphabet == OtherChars \o UpperChars \o LowerChars

Ord(c) == CHOOSE i \in 1..Len(Alphabet) : Alphabet[i] = c

UpperChar(c) ==
    IF \E i \in 1..26 : LowerChars[i] = c
    THEN UpperChars[CHOOSE i \in 1..26 : LowerChars[i] = c]
    ELSE c

LowerChar(c) ==
    IF \E i \in 1..26 : UpperChars[i] = c
    THEN LowerChars[CHOOSE i \in 1..26 : UpperChars[i] = c]
    ELSE c

\* str.upper()
Upper(s) == [i \in 1..Len(s) |-> UpperChar(s[i])]

\* str.lower()
Lower(s) == [i \in 1..Len(s) |-> LowerChar(s[i])]

\* str.strip()
Strip(s) ==
    LET keep == {i \in 1..Len(s) : s[i] \notin Whitespace}
    IN  IF keep = {} THEN <<>>
        ELSE LET lo == CHOOSE i \in keep : \A j \in keep : i <= j
                 hi == CHOOSE i \in keep : \A j \in keep : j <= i
             IN  SubSeq(s, lo, hi)

\* s < t in Python's str ordering (lexicographic by code point)
StrLess(s, t) ==
    \E k \in 0..Len(s) :
        /\ k <= Len(t)
        /\ \A i \in 1..k : s[i] = t[i]
        /\ \/ (k = Len(s) /\ k < Len(t))
           \/ (k < Len(s) /\ k < Len(t) /\ Ord(s[k+1]) < Ord(t[k+1]))

RECURSIVE InsertSorted(_, _)
InsertSorted(x, l) ==
    IF l = <<>> THEN <<x>>
    ELSE IF StrLess(x, Head(l)) THEN <<x>> \o l
    ELSE <<Head(l)>> \o InsertSorted(x, Tail(l))

\* sorted(l) for a list of str (stable; equal strings are indistinguishable)
RECURSIVE Sorted(_)
Sorted(l) ==
    IF l = <<>> THEN <<>>
    ELSE InsertSorted(l[Len(l)], Sorted(SubSeq(l, 1, Len(l) - 1)))

\* sep.join(l)
RECURSIVE Join(_, _)
Join(sep, l) ==
    IF l = <<>> THEN <<>>
    ELSE IF Len(l) = 1 THEN l[1]
    ELSE l[1] \o sep \o Join(sep, Tail(l))

(* ------------------------------------------------------------------ *)
(* SYMBOL_TO_ID and symbol_to_id                                       *)
(* ------------------------------------------------------------------ *)

SymbolTable == <<
    << <<"B","T","C">>,         <<"b","i","t","c","o","i","n">> >>,
    << <<"E","T","H">>,         <<"e","t","h","e","r","e","u","m">> >>,
    << <<"A","D","A">>,         <<"c","a","r","d","a","n","o">> >>,
    << <<"D","O","T">>,         <<"p","o","l","k","a","d","o","t">> >>,
    << <<"B","N","B">>,         <<"b","i","n","a","n","c","e","c","o","i","n">> >>,
    << <<"X","R","P">>,         <<"r","i","p","p","l","e">> >>,
    << <<"S","O","L">>,         <<"s","o","l","a","n","a">> >>,
    << <<"L","T","C">>,         <<"l","i","t","e","c","o","i","n">> >>,
    << <<"D","O","G","E">>,     <<"d","o","g","e","c","o","i","n">> >>,
    << <<"A","V","A","X">>,     <<"a","v","a","l","a","n","c","h","e","-","2">> >>,
    << <<"L","I","N","K">>,     <<"c","h","a","i","n","l","i","n","k">> >>,
    << <<"M","A","T","I","C">>, <<"m","a","t","i","c","-","n","e","t","w","o","r","k">> >>,
    << <<"A","T","O","M">>,     <<"c","o","s","m","o","s">> >>,
    << <<"T","R","X">>,         <<"t","r","o","n">> >> >>

\* SYMBOL_TO_ID.keys()
Tickers == {SymbolTable[i][1] : i \in 1..Len(SymbolTable)}

\* SYMBOL_TO_ID.values()
CoinIds == {SymbolTable[i][2] : i \in 1..Len(SymbolTable)}

\* SYMBOL_TO_ID[k]
SYMBOL_TO_ID == [k \in Tickers |->
    SymbolTable[CHOOSE i \in 1..Len(SymbolTable) : SymbolTable[i][1] = k][2]]

PyNone == [t |-> "None"]
Str(s) == [t |-> "str", v |-> s]
Num(n) == [t |-> "num", v |-> n]
Dict(f) == [t |-> "dict", v |-> f]
List(s) == [t |-> "list", v |-> s]
Raise(e) == [t |-> "raise", v |-> e]

\* symbol_to_id looking the upper-cased input up among the ids (s for candidate)
symbol_to_id_UpperCandidate(symbol_or_id) ==
    IF symbol_or_id = <<>> THEN PyNone
    ELSE LET s == Upper(Strip(symbol_or_id))
         IN  IF s \in Tickers THEN Str(SYMBOL_TO_ID[s])
             ELSE IF s \in CoinIds THEN Str(s)
             ELSE PyNone

\* symbol_to_id taking any input it does not know for an id (no test of line 92)
symbol_to_id_Guess(symbol_or_id) ==
    IF symbol_or_id = <<>> THEN PyNone
    ELSE LET s == Upper(Strip(symbol_or_id))
             candidate == Lower(Strip(symbol_or_id))
         IN  IF s \in Tickers THEN Str(SYMBOL_TO_ID[s])
             ELSE Str(candidate)

symbol_to_id(symbol_or_id) ==
    IF symbol_or_id = <<>> THEN PyNone
    ELSE LET s == Upper(Strip(symbol_or_id))
             candidate == Lower(Strip(symbol_or_id))
         IN  IF s \in Tickers THEN Str(SYMBOL_TO_ID[s])
             ELSE IF candidate \in CoinIds THEN Str(candidate)
             ELSE PyNone

(* ------------------------------------------------------------------ *)
(* Python value helpers                                                *)
(* ------------------------------------------------------------------ *)

S_error == <<"e","r","r","o","r">>
S_usd == <<"u","s","d">>
S_simple_price == <<"s","i","m","p","l","e","_","p","r","i","c","e">>

\* bool(v)
Truthy(v) ==
    CASE v.t = "None" -> FALSE
      [] v.t = "num"  -> v.v # 0
      [] v.t = "dict" -> DOMAIN v.v # {}
      [] OTHER        -> Len(v.v) > 0

\* sub in s, for two str
IsSubstring(sub, s) ==
    \E i \in 1..(Len(s) - Len(sub) + 1) : SubSeq(s, i, i + Len(sub) - 1) = sub

\* (key in v) for a str key: "yes", "no", or the exception raised
InStr(key, v) ==
    CASE v.t = "dict" -> IF key \in DOMAIN v.v THEN "yes" ELSE "no"
      [] v.t = "list" ->
            IF \E i \in 1..Len(v.v) : v.v[i].t = "str" /\ v.v[i].v = key
            THEN "yes" ELSE "no"
      [] v.t = "str"  -> IF IsSubstring(key, v.v) THEN "yes" ELSE "no"
      [] OTHER        -> "TypeError"

\* v.get(key, default): only a dict has .get
DictGet(v, key, default) ==
    IF v.t # "dict" THEN Raise("AttributeError")
    ELSE IF key \in DOMAIN v.v THEN v.v[key] ELSE default

IsRaise(v) == v.t = "raise"

(* ------------------------------------------------------------------ *)
(* The cache: _CACHE maps a key to <<timestamp, data>>                 *)
(* ------------------------------------------------------------------ *)

\* tenths of a second in one second: ttl is given in seconds
TicksPerSecond == 10

DEFAULT_TTL == 30

\* CacheFresh with the boundary excluded (>= for >)
CacheFreshStrict(ts, ttl, t) == ~(t - ts >= ttl * TicksPerSecond)

\* the test of line 54, negated: the record is still served
CacheFresh(ts, ttl, t) == ~(t - ts > ttl * TicksPerSecond)

\* what _cache_get returns at time t
_cache_get(cache, key, ttl, t) ==
    IF key \notin DOMAIN cache THEN PyNone
    ELSE IF ~CacheFresh(cache[key][1], ttl, t) THEN PyNone
    ELSE cache[key][2]

\* CacheAfterGet popping the record it reads, expired or not
CacheAfterGetPop(cache, key, ttl, t) ==
    [k \in DOMAIN cache \ {key} |-> cache[k]]

\* the cache _cache_get leaves behind: an expired record is popped
CacheAfterGet(cache, key, ttl, t) ==
    IF key \in DOMAIN cache /\ ~CacheFresh(cache[key][1], ttl, t)
    THEN [k \in DOMAIN cache \ {key} |-> cache[k]]
    ELSE cache

\* the cache after _cache_set(key, value) at time t
_cache_set(cache, key, value, t) ==
    [k \in DOMAIN cache \cup {key} |-> IF k = key THEN <<t, value>> ELSE cache[k]]

(* ------------------------------------------------------------------ *)
(* _request: requests.get with retries and linear backoff              *)
(* ------------------------------------------------------------------ *)

\* the default retries and backoff (0.8 s) of _request
DefaultRetries == 2
Backoff == 8

\* an attempt that raises requests.RequestException
HttpFail == [t |-> "RequestException"]

\* str(e) of the exception of the last attempt
ErrorText == <<"e","r","r">>

\* RequestFrom giving up one attempt early (range(retries) for range(retries + 1))
RECURSIVE RequestFromShort(_, _, _, _)
RequestFromShort(outcomes, attempt, retries, backoff) ==
    IF attempt > retries
    THEN [ret |-> PyNone, attempts |-> 0, sleeps |-> <<>>]
    ELSE IF outcomes[attempt + 1].t # HttpFail.t
    THEN [ret |-> outcomes[attempt + 1], attempts |-> 1, sleeps |-> <<>>]
    ELSE IF attempt + 1 >= retries
    THEN [ret |-> Dict([k \in {S_error} |-> Str(ErrorText)]),
          attempts |-> 1, sleeps |-> <<>>]
    ELSE LET r == RequestFromShort(outcomes, attempt + 1, retries, backoff)
         IN  [ret |-> r.ret, attempts |-> r.attempts + 1,
              sleeps |-> <<backoff * (attempt + 1)>> \o r.sleeps]

\* RequestFrom sleeping backoff after every failure (no * (attempt + 1))
RECURSIVE RequestFromFlat(_, _, _, _)
RequestFromFlat(outcomes, attempt, retries, backoff) ==
    IF attempt > retries
    THEN [ret |-> PyNone, attempts |-> 0, sleeps |-> <<>>]
    ELSE IF outcomes[attempt + 1].t # HttpFail.t
    THEN [ret |-> outcomes[attempt + 1], attempts |-> 1, sleeps |-> <<>>]
    ELSE IF attempt = retries
    THEN [ret |-> Dict([k \in {S_error} |-> Str(ErrorText)]),
          attempts |-> 1, sleeps |-> <<>>]
    ELSE LET r == RequestFromFlat(outcomes, attempt + 1, retries, backoff)
         IN  [ret |-> r.ret, attempts |-> r.attempts + 1,
              sleeps |-> <<backoff>> \o r.sleeps]

\* outcomes[i] is what the i-th requests.get would give; the result names
\* the value returned, the attempts made and the sleeps taken, in order
RECURSIVE RequestFrom(_, _, _, _)
RequestFrom(outcomes, attempt, retries, backoff) ==
    IF attempt > retries
    THEN [ret |-> PyNone, attempts |-> 0, sleeps |-> <<>>]
    ELSE IF outcomes[attempt + 1].t # HttpFail.t
    THEN [ret |-> outcomes[attempt + 1], attempts |-> 1, sleeps |-> <<>>]
    ELSE IF attempt = retries
    THEN [ret |-> Dict([k \in {S_error} |-> Str(ErrorText)]),
          attempts |-> 1, sleeps |-> <<>>]
    ELSE LET r == RequestFrom(outcomes, attempt + 1, retries, backoff)
         IN  [ret |-> r.ret, attempts |-> r.attempts + 1,
              sleeps |-> <<backoff * (attempt + 1)>> \o r.sleeps]

_request(outcomes) == RequestFrom(outcomes, 0, DefaultRetries, Backoff)

RECURSIVE SumSeq(_)
SumSeq(s) == IF s = <<>> THEN 0 ELSE Head(s) + SumSeq(Tail(s))

\* no _request was made
NoRequest == [ret |-> PyNone, attempts |-> 0, sleeps |-> <<>>]

(* ------------------------------------------------------------------ *)
(* get_simple_price                                                    *)
(* ------------------------------------------------------------------ *)

\* s.split(c), for a one-character separator
RECURSIVE Split(_, _)
Split(s, c) ==
    IF \A i \in 1..Len(s) : s[i] # c THEN <<s>>
    ELSE LET i == CHOOSE j \in 1..Len(s) :
                      s[j] = c /\ \A k \in 1..(j - 1) : s[k] # c
         IN  <<SubSeq(s, 1, i - 1)>> \o Split(SubSeq(s, i + 1, Len(s)), c)

\* lines 107-110: the list of symbols, from a str or from a list of str
SymbolsList(symbols) ==
    IF symbols.t = "str"
    THEN LET parts == Split(symbols.v, ",")
             kept == SelectSeq(parts, LAMBDA x : Strip(x) # <<>>)
         IN  [i \in 1..Len(kept) |-> Strip(kept[i])]
    ELSE [i \in 1..Len(symbols.v) |-> symbols.v[i].v]

\* lines 112-118: the resolved ids, in the order of the symbols
RECURSIVE ResolvedIds(_)
ResolvedIds(symbols_list) ==
    IF symbols_list = <<>> THEN <<>>
    ELSE LET coin_id == symbol_to_id(Head(symbols_list))
         IN  (IF Truthy(coin_id) THEN <<coin_id.v>> ELSE <<>>)
             \o ResolvedIds(Tail(symbols_list))

\* lines 113-116: mapping[sym.upper()] = coin_id, a later symbol overwriting
SymbolMapping(symbols_list) ==
    [k \in {Upper(symbols_list[i]) : i \in 1..Len(symbols_list)} |->
        LET i == CHOOSE j \in 1..Len(symbols_list) :
                     /\ Upper(symbols_list[j]) = k
                     /\ \A m \in (j + 1)..Len(symbols_list) : Upper(symbols_list[m]) # k
        IN  symbol_to_id(symbols_list[i])]

\* line 120
SimplePriceKey(ids, vs_currency) ==
    S_simple_price \o <<":">> \o Join(<<",">>, Sorted(ids)) \o <<":">> \o vs_currency

\* line 129: the ids parameter of the request
IdsParam(ids) == Join(<<",">>, ids)

\* line 124, one entry of the comprehension
HitEntry(cached, coin_id, vs_currency) ==
    IF ~Truthy(coin_id) THEN PyNone
    ELSE LET x == DictGet(cached, coin_id.v, Dict(<<>>))
         IN  IF IsRaise(x) THEN x ELSE DictGet(x, vs_currency, PyNone)

\* line 124: the mapping returned on a cache hit
HitProjection(cached, mapping, vs_currency) ==
    IF \E k \in DOMAIN mapping : IsRaise(HitEntry(cached, mapping[k], vs_currency))
    THEN Raise("AttributeError")
    ELSE Dict([k \in DOMAIN mapping |-> HitEntry(cached, mapping[k], vs_currency)])

\* lines 137-140, one pass of the loop
FetchEntry(data, cid, vs_currency) ==
    IF ~Truthy(cid) THEN PyNone
    ELSE LET g == DictGet(data, cid.v, PyNone)
         IN  IF IsRaise(g) THEN g
             ELSE IF ~Truthy(g) THEN PyNone
             ELSE IF InStr(vs_currency, g) = "TypeError" THEN Raise("TypeError")
             ELSE IF InStr(vs_currency, g) = "no" THEN PyNone
             ELSE IF g.t = "dict" THEN g.v[vs_currency]
             ELSE Raise("TypeError")

\* lines 135-141: the mapping returned after a fetch
FetchProjection(data, mapping, vs_currency) ==
    IF \E k \in DOMAIN mapping : IsRaise(FetchEntry(data, mapping[k], vs_currency))
    THEN LET k == CHOOSE j \in DOMAIN mapping :
                      IsRaise(FetchEntry(data, mapping[j], vs_currency))
         IN  FetchEntry(data, mapping[k], vs_currency)
    ELSE Dict([k \in DOMAIN mapping |-> FetchEntry(data, mapping[k], vs_currency)])

\* lines 127 and 132
AllNone(mapping) == Dict([k \in DOMAIN mapping |-> PyNone])

\* line 131: not data or "error" in data
FailedData(data) ==
    IF ~Truthy(data) THEN "yes" ELSE InStr(S_error, data)

\* the whole call at time t on cache: the value returned or the exception
\* raised, the cache left behind, and the request made
get_simple_price(symbols, vs_currency, ttl, outcomes, cache, t) ==
    LET symbols_list == SymbolsList(symbols)
        ids == ResolvedIds(symbols_list)
        mapping == SymbolMapping(symbols_list)
        cache_key == SimplePriceKey(ids, vs_currency)
        cached == _cache_get(cache, cache_key, ttl, t)
        cache1 == CacheAfterGet(cache, cache_key, ttl, t)
        req == _request(outcomes)
        data == req.ret
        tset == t + SumSeq(req.sleeps)
        quiet == [cache |-> cache1, hit |-> FALSE, requests |-> 0, req |-> NoRequest,
                  params |-> PyNone, key |-> cache_key]
        asked == [cache |-> cache1, hit |-> FALSE, requests |-> 1, req |-> req,
                  params |-> Str(IdsParam(ids)), key |-> cache_key]
    IN  IF cached.t # "None"
        THEN [quiet EXCEPT !.hit = TRUE] @@
             [ret |-> HitProjection(cached, mapping, vs_currency)]
        ELSE IF ids = <<>>
        THEN quiet @@ [ret |-> AllNone(mapping)]
        ELSE IF FailedData(data) = "TypeError"
        THEN asked @@ [ret |-> Raise("TypeError")]
        ELSE IF FailedData(data) = "yes"
        THEN asked @@ [ret |-> AllNone(mapping)]
        ELSE [asked EXCEPT !.cache = _cache_set(cache1, cache_key, data, tset)] @@
             [ret |-> FetchProjection(data, mapping, vs_currency)]

(* ------------------------------------------------------------------ *)
(* get_market_data, get_coin_info, search_coin                         *)
(* ------------------------------------------------------------------ *)

S_id == <<"i","d">>
S_symbol == <<"s","y","m","b","o","l">>
S_name == <<"n","a","m","e">>
S_current_price == <<"c","u","r","r","e","n","t","_","p","r","i","c","e">>
S_market_cap == <<"m","a","r","k","e","t","_","c","a","p">>
S_price_change_percentage_24h == <<"p","r","i","c","e","_","c","h","a","n","g","e","_","p","e","r","c","e","n","t","a","g","e","_","2","4","h">>
S_total_volume == <<"t","o","t","a","l","_","v","o","l","u","m","e">>
S_description == <<"d","e","s","c","r","i","p","t","i","o","n">>
S_en == <<"e","n">>
S_links == <<"l","i","n","k","s">>
S_homepage == <<"h","o","m","e","p","a","g","e">>
S_coins == <<"c","o","i","n","s">>
S_market_data == <<"m","a","r","k","e","t","_","d","a","t","a">>
S_coin_info == <<"c","o","i","n","_","i","n","f","o">>
S_search == <<"s","e","a","r","c","h">>

\* the texts of the error markers
S_unknown_symbol_or_id ==
    <<"u","n","k","n","o","w","n"," ","s","y","m","b","o","l"," ","o","r"," ","i","d"," ","m","a","p","p","i","n","g"," ","n","o","t"," ","a","v","a","i","l","a","b","l","e">>
S_unknown_symbol ==
    <<"u","n","k","n","o","w","n"," ","s","y","m","b","o","l">>
S_request_failed ==
    <<"r","e","q","u","e","s","t"," ","f","a","i","l","e","d">>
S_no_data_returned ==
    <<"n","o"," ","d","a","t","a"," ","r","e","t","u","r","n","e","d">>
S_empty_query ==
    <<"e","m","p","t","y"," ","q","u","e","r","y">>

Digits == <<"0","1","2","3","4","5","6","7","8","9">>

\* str(n) of an int, as the f-string of line 224 formats limit
RECURSIVE NatToStr(_)
NatToStr(n) ==
    IF n < 10 THEN <<Digits[n + 1]>>
    ELSE NatToStr(n \div 10) \o <<Digits[(n % 10) + 1]>>

IntToStr(n) == IF n < 0 THEN <<"-">> \o NatToStr(-n) ELSE NatToStr(n)

\* s[:n] of a sequence
SliceTo(s, n) ==
    IF n >= 0
    THEN SubSeq(s, 1, IF n < Len(s) THEN n ELSE Len(s))
    ELSE SubSeq(s, 1, IF Len(s) + n > 0 THEN Len(s) + n ELSE 0)

\* v[:n]: a str and a list can be sliced, nothing else the provider sends
PySlice(v, n) ==
    CASE v.t = "str"  -> Str(SliceTo(v.v, n))
      [] v.t = "list" -> List(SliceTo(v.v, n))
      [] OTHER        -> Raise("TypeError")

\* (v or {})
OrEmptyDict(v) == IF Truthy(v) THEN v ELSE Dict(<<>>)

\* lines 169, 204, 231: the marker returned for a failed or empty answer
ErrorMarker(data) ==
    Dict([k \in {S_error} |->
            IF data.t = "dict" THEN DictGet(data, S_error, PyNone)
            ELSE Str(S_request_failed)])

ErrorText_(text) == Dict([k \in {S_error} |-> Str(text)])

\* the caps of lines 210 and 211
DescriptionCap == 800
HomepageCap == 3

\* the default limit of search_coin
DefaultLimit == 5

MarketFields == {S_id, S_symbol, S_name, S_current_price, S_market_cap,
                 S_price_change_percentage_24h, S_total_volume}

\* line 161
MarketDataKey(coin_id, vs_currency) ==
    S_market_data \o <<":">> \o coin_id \o <<":">> \o vs_currency

\* line 197
CoinInfoKey(coin_id) == S_coin_info \o <<":">> \o coin_id

\* line 224
SearchKey(query, limit) ==
    S_search \o <<":">> \o Lower(query) \o <<":">> \o IntToStr(limit)

\* what a call that stops before the cache is read leaves and reports
Stopped(cache, ret) ==
    [cache |-> cache, hit |-> FALSE, requests |-> 0, req |-> NoRequest,
     params |-> PyNone, key |-> <<>>, ret |-> ret]

\* lines 171-185: the record picked out of the list the provider sent
MarketRecord(data) ==
    IF data.t = "list" /\ Len(data.v) > 0
    THEN IF data.v[1].t # "dict" THEN Raise("AttributeError")
         ELSE Dict([k \in MarketFields |-> DictGet(data.v[1], k, PyNone)])
    ELSE ErrorText_(S_no_data_returned)

\* get_market_data resolving the symbol only after it has asked the provider
get_market_data_AskFirst(symbol, vs_currency, ttl, outcomes, cache, t) ==
    LET coin_id == symbol_to_id(symbol)
        req == _request(outcomes)
    IN  IF ~Truthy(coin_id)
        THEN [Stopped(cache, ErrorText_(S_unknown_symbol_or_id))
                EXCEPT !.requests = 1, !.req = req]
        ELSE Stopped(cache, ErrorMarker(req.ret))

get_market_data(symbol, vs_currency, ttl, outcomes, cache, t) ==
    LET coin_id == symbol_to_id(symbol)
        cache_key == MarketDataKey(coin_id.v, vs_currency)
        cached == _cache_get(cache, cache_key, ttl, t)
        cache1 == CacheAfterGet(cache, cache_key, ttl, t)
        req == _request(outcomes)
        data == req.ret
        tset == t + SumSeq(req.sleeps)
        out == MarketRecord(data)
        quiet == [cache |-> cache1, hit |-> FALSE, requests |-> 0, req |-> NoRequest,
                  params |-> PyNone, key |-> cache_key]
        asked == [cache |-> cache1, hit |-> FALSE, requests |-> 1, req |-> req,
                  params |-> coin_id, key |-> cache_key]
    IN  IF ~Truthy(coin_id)
        THEN Stopped(cache, ErrorText_(S_unknown_symbol_or_id))
        ELSE IF Truthy(cached)
        THEN [quiet EXCEPT !.hit = TRUE] @@ [ret |-> cached]
        ELSE IF FailedData(data) = "TypeError"
        THEN asked @@ [ret |-> Raise("TypeError")]
        ELSE IF FailedData(data) = "yes"
        THEN asked @@ [ret |-> ErrorMarker(data)]
        ELSE IF data.t = "list" /\ Len(data.v) > 0 /\ ~IsRaise(out)
        THEN [asked EXCEPT !.cache = _cache_set(cache1, cache_key, out, tset)] @@
             [ret |-> out]
        ELSE asked @@ [ret |-> out]

\* CoinInfoRecord cutting one past each cap ([:801] and [:4])
CoinInfoRecordLoose(data) ==
    LET d == DictGet(data, S_description, PyNone)
        en == IF IsRaise(d) THEN d ELSE DictGet(OrEmptyDict(d), S_en, Str(<<>>))
        description == IF IsRaise(en) THEN en ELSE PySlice(en, DescriptionCap + 1)
        l == DictGet(data, S_links, PyNone)
        hp == IF IsRaise(l) THEN l ELSE DictGet(OrEmptyDict(l), S_homepage, List(<<>>))
        homepage == IF IsRaise(hp) THEN hp ELSE PySlice(hp, HomepageCap + 1)
    IN  IF data.t # "dict" THEN Raise("AttributeError")
        ELSE IF IsRaise(description) THEN description
        ELSE IF IsRaise(homepage) THEN homepage
        ELSE Dict([k \in {S_id, S_symbol, S_name, S_description, S_homepage} |->
                CASE k = S_description -> description
                  [] k = S_homepage    -> homepage
                  [] OTHER             -> DictGet(data, k, PyNone)])

\* lines 206-212: the record built from the provider's answer
CoinInfoRecord(data) ==
    LET d == DictGet(data, S_description, PyNone)
        en == IF IsRaise(d) THEN d ELSE DictGet(OrEmptyDict(d), S_en, Str(<<>>))
        description == IF IsRaise(en) THEN en ELSE PySlice(en, DescriptionCap)
        l == DictGet(data, S_links, PyNone)
        hp == IF IsRaise(l) THEN l ELSE DictGet(OrEmptyDict(l), S_homepage, List(<<>>))
        homepage == IF IsRaise(hp) THEN hp ELSE PySlice(hp, HomepageCap)
    IN  IF data.t # "dict" THEN Raise("AttributeError")
        ELSE IF IsRaise(description) THEN description
        ELSE IF IsRaise(homepage) THEN homepage
        ELSE Dict([k \in {S_id, S_symbol, S_name, S_description, S_homepage} |->
                CASE k = S_description -> description
                  [] k = S_homepage    -> homepage
                  [] OTHER             -> DictGet(data, k, PyNone)])

get_coin_info(symbol, ttl, outcomes, cache, t) ==
    LET coin_id == symbol_to_id(symbol)
        cache_key == CoinInfoKey(coin_id.v)
        cached == _cache_get(cache, cache_key, ttl, t)
        cache1 == CacheAfterGet(cache, cache_key, ttl, t)
        req == _request(outcomes)
        data == req.ret
        tset == t + SumSeq(req.sleeps)
        out == CoinInfoRecord(data)
        quiet == [cache |-> cache1, hit |-> FALSE, requests |-> 0, req |-> NoRequest,
                  params |-> PyNone, key |-> cache_key]
        asked == [cache |-> cache1, hit |-> FALSE, requests |-> 1, req |-> req,
                  params |-> coin_id, key |-> cache_key]
    IN  IF ~Truthy(coin_id)
        THEN Stopped(cache, ErrorText_(S_unknown_symbol))
        ELSE IF Truthy(cached)
        THEN [quiet EXCEPT !.hit = TRUE] @@ [ret |-> cached]
        ELSE IF FailedData(data) = "TypeError"
        THEN asked @@ [ret |-> Raise("TypeError")]
        ELSE IF FailedData(data) = "yes"
        THEN asked @@ [ret |-> ErrorMarker(data)]
        ELSE IF IsRaise(out)
        THEN asked @@ [ret |-> out]
        ELSE [asked EXCEPT !.cache = _cache_set(cache1, cache_key, out, tset)] @@
             [ret |-> out]

\* lines 234-235: the first limit coins of the provider's answer
SearchResult(data, limit) ==
    LET coins == DictGet(data, S_coins, List(<<>>))
        cut == IF IsRaise(coins) THEN coins ELSE PySlice(coins, limit)
    IN  IF IsRaise(cut) THEN cut ELSE Dict([k \in {S_coins} |-> cut])

search_coin(query, limit, outcomes, cache, t) ==
    LET cache_key == SearchKey(query, limit)
        cached == _cache_get(cache, cache_key, DEFAULT_TTL, t)
        cache1 == CacheAfterGet(cache, cache_key, DEFAULT_TTL, t)
        req == _request(outcomes)
        data == req.ret
        tset == t + SumSeq(req.sleeps)
        result == SearchResult(data, limit)
        quiet == [cache |-> cache1, hit |-> FALSE, requests |-> 0, req |-> NoRequest,
                  params |-> PyNone, key |-> cache_key]
        asked == [cache |-> cache1, hit |-> FALSE, requests |-> 1, req |-> req,
                  params |-> Str(query), key |-> cache_key]
    IN  IF query = <<>>
        THEN Stopped(cache, ErrorText_(S_empty_query))
        ELSE IF Truthy(cached)
        THEN [quiet EXCEPT !.hit = TRUE] @@ [ret |-> cached]
        ELSE IF FailedData(data) = "TypeError"
        THEN asked @@ [ret |-> Raise("TypeError")]
        ELSE IF FailedData(data) = "yes"
        THEN asked @@ [ret |-> ErrorMarker(data)]
        ELSE IF IsRaise(result)
        THEN asked @@ [ret |-> result]
        ELSE [asked EXCEPT !.cache = _cache_set(cache1, cache_key, result, tset)] @@
             [ret |-> result]

(* ------------------------------------------------------------------ *)
(* Inputs: symbols, ttls and what the provider answers                 *)
(* ------------------------------------------------------------------ *)

\* the clock stops here
MaxTime == 34

\* ttl arguments are 0..MaxTtl seconds
MaxTtl == 1

S_BTC == <<"B","T","C">>
S_btc == <<"b","t","c">>
S_bitcoin == <<"b","i","t","c","o","i","n">>
S_ETH == <<"E","T","H">>
S_eth_padded == <<" ","e","t","h"," ">>
S_NOPE == <<"N","O","P","E">>

Currencies == {S_usd}

TTLs == 0..MaxTtl

\* the provider's price of a coin: its place in the table
PriceOf(id) == CHOOSE i \in 1..Len(SymbolTable) : SymbolTable[i][2] = id

IdSet(ids) == {ids[i] : i \in 1..Len(ids)}

\* the JSON bodies /simple/price may answer for these ids: well-formed,
\* partial, empty and malformed ones
SimplePriceBodies(ids, vs_currency) ==
    LET all == IdSet(ids)
        first == IF ids = <<>> THEN {} ELSE {Sorted(ids)[1]}
        quote(id) == Dict([c \in {vs_currency} |-> Num(PriceOf(id))])
    IN  { Dict([id \in all |-> quote(id)]),
          Dict([id \in first |-> quote(id)]),
          Dict([id \in all |-> Dict(<<>>)]),
          Dict([id \in all |-> PyNone]),
          Dict([id \in all |-> Num(5)]),
          Dict(<<>>),
          Dict([k \in {S_error} |-> Str(ErrorText)]),
          PyNone,
          List(<<Num(1)>>),
          Num(5) }

\* what the retries+1 attempts of one _request would give: some failures,
\* then a body; or failures only
Outcomes(bodies) ==
    { [i \in 1..(DefaultRetries + 1) |-> IF i <= n THEN HttpFail ELSE b] :
        n \in 0..DefaultRetries, b \in bodies }
    \cup { [i \in 1..(DefaultRetries + 1) |-> HttpFail] }

(* ------------------------------------------------------------------ *)
(* The state machine                                                   *)
(* ------------------------------------------------------------------ *)

\* no concurrent callers: every call runs alone, from its start to its return
NoThreads == [call |-> PyNone, th |-> <<>>]

NoCall == [op |-> "none", symbols |-> PyNone, vs |-> <<>>, ttl |-> 0, limit |-> 0,
           t0 |-> 0,
           t1 |-> 0, ret |-> PyNone, hit |-> FALSE, requests |-> 0, attempts |-> 0,
           sleeps |-> <<>>, outcomes |-> <<>>, params |-> PyNone, key |-> <<>>,
           had |-> -1, since |-> -1]

Init ==
    /\ now = 0
    /\ _CACHE = <<>>
    /\ last = NoCall
    /\ stored = <<>>
    /\ threads = NoThreads
    /\ session_state = <<>>

\* time passes between two calls
Tick ==
    /\ now + TicksPerSecond <= MaxTime
    /\ now' = now + TicksPerSecond
    /\ UNCHANGED <<_CACHE, last, stored, threads, session_state>>

\* a call of op made now, r being what it does: t0 and t1 are the times it
\* starts and ends, outcomes the kind of answer each attempt would get (kept
\* only if a request was made), had the timestamp of the entry its key had in the cache
\* (-1: none), since the time its key was last stored (-1: never)
Called(op, symbols, vs_currency, ttl, limit, outcomes, r) ==
    /\ now + SumSeq(r.req.sleeps) <= MaxTime
    /\ now' = now + SumSeq(r.req.sleeps)
    /\ _CACHE' = r.cache
    /\ stored' = IF r.key \in DOMAIN r.cache /\
                    (r.key \notin DOMAIN _CACHE \/ r.cache[r.key] # _CACHE[r.key])
                 THEN [k \in DOMAIN stored \cup {r.key} |->
                          IF k = r.key THEN r.cache[r.key][1] ELSE stored[k]]
                 ELSE stored
    /\ last' = [op |-> op, symbols |-> symbols, vs |-> vs_currency, ttl |-> ttl,
                limit |-> limit, t0 |-> now, t1 |-> now', ret |-> r.ret, hit |-> r.hit,
                requests |-> r.requests, attempts |-> r.req.attempts,
                sleeps |-> r.req.sleeps,
                outcomes |-> IF r.requests = 1
                             THEN [i \in 1..Len(outcomes) |-> outcomes[i].t]
                             ELSE <<>>,
                params |-> r.params, key |-> r.key,
                had |-> IF r.key \in DOMAIN _CACHE THEN _CACHE[r.key][1] ELSE -1,
                since |-> IF r.key \in DOMAIN stored THEN stored[r.key] ELSE -1]
    /\ UNCHANGED <<threads, session_state>>

GetSimplePrice(symbols, vs_currency, ttl, outcomes) ==
    \E r \in {get_simple_price(symbols, vs_currency, ttl, outcomes, _CACHE, now)} :
        Called("get_simple_price", symbols, vs_currency, ttl, 0, outcomes, r)

\* bulk_prices passes its arguments on
BulkPrices(symbols, vs_currency, ttl, outcomes) ==
    \E r \in {get_simple_price(symbols, vs_currency, ttl, outcomes, _CACHE, now)} :
        Called("bulk_prices", symbols, vs_currency, ttl, 0, outcomes, r)

\* whether this call would reach _request: only then is the provider asked
WillRequest(symbols, vs_currency, ttl) ==
    get_simple_price(symbols, vs_currency, ttl,
                     [i \in 1..(DefaultRetries + 1) |-> HttpFail],
                     _CACHE, now).requests = 1

\* the provider's possible answers to this call, if it asks at all
SimplePriceOutcomes(symbols, vs_currency, ttl) ==
    IF WillRequest(symbols, vs_currency, ttl)
    THEN Outcomes(SimplePriceBodies(ResolvedIds(SymbolsList(symbols)), vs_currency))
    ELSE {[i \in 1..(DefaultRetries + 1) |-> HttpFail]}

\* one coin, every answer of the provider, and the clock
TtlArgs == {
    List(<<>>),
    List(<<Str(S_BTC)>>),
    List(<<Str(S_btc)>>),
    List(<<Str(S_NOPE)>>),
    List(<<Str(S_BTC), Str(S_NOPE)>>) }

Next ==
    \/ Tick
    \/ \E symbols \in TtlArgs, vs \in Currencies, ttl \in TTLs :
         \E outcomes \in SimplePriceOutcomes(symbols, vs, ttl) :
            GetSimplePrice(symbols, vs, ttl, outcomes)

Spec == Init /\ [][Next]_vars

(* ------------------------------------------------------------------ *)
(* Properties of get_simple_price, one coin (Spec)                     *)
(* ------------------------------------------------------------------ *)

IsPriceCall(c) == c.op = "get_simple_price"

\* a step in which a call is made: it starts now and takes its sleeps
CallStep == last'.t0 = now /\ now' = now + SumSeq(last'.sleeps) /\ last'.t1 = now'

AllFailed(c) ==
    /\ c.requests = 1
    /\ \A i \in 1..Len(c.outcomes) : c.outcomes[i] = HttpFail.t

\* the symbols of a call, as the list the code iterates over
Requested(c) ==
    LET l == SymbolsList(c.symbols) IN {l[i] : i \in 1..Len(l)}

\* C1 as claimed: once a fetch has stored the key's entry at time T (since),
\* every later call for the key at time t with ttl D is served from the cache
\* without a request when t - T <= D, and fetches afresh when t - T > D.
C1_AsClaimed ==
    (IsPriceCall(last) /\ last.since >= 0) =>
        IF last.t0 - last.since <= last.ttl * TicksPerSecond
        THEN last.hit /\ last.requests = 0
        ELSE ~last.hit /\ last.requests = 1

\* C1 amended: a call whose key has an entry in the cache, stored at time T
\* (had), is served from the cache without a request iff t - T <= D, the
\* boundary included; otherwise the entry is dropped and a request is made.
C1_EntryValidIffWithinTtl ==
    (IsPriceCall(last) /\ last.had >= 0) =>
        IF last.t0 - last.had <= last.ttl * TicksPerSecond
        THEN last.hit /\ last.requests = 0 /\ last.attempts = 0
        ELSE /\ ~last.hit /\ last.requests = 1 /\ last.attempts >= 1
             /\ (last.key \in DOMAIN _CACHE => _CACHE[last.key][1] = last.t1)

\* a call exactly on the boundary t - T = D, with D > 0, served from the cache
C1_Witness ==
    /\ IsPriceCall(last) /\ last.had >= 0 /\ last.ttl > 0
    /\ last.t0 - last.had = last.ttl * TicksPerSecond
    /\ last.hit

\* C2: a call that fetches (one attempt, a usable answer, a mapping
\* returned) followed within the ttl by a call with the same symbols and
\* currency: one network call in all, the second call is served from the cache
\* and returns the mapping the first returned.
C2_SecondCallServedSame ==
    [][ ( /\ CallStep
          /\ IsPriceCall(last) /\ IsPriceCall(last')
          /\ last.requests = 1 /\ last.attempts = 1 /\ last.ret.t = "dict"
          /\ last.key \in DOMAIN _CACHE /\ _CACHE[last.key][1] = last.t1
          /\ last'.symbols = last.symbols /\ last'.vs = last.vs
          /\ last'.ttl = last.ttl
          /\ last'.t0 - last.t1 <= last.ttl * TicksPerSecond )
        => ( /\ last.attempts + last'.attempts = 1
             /\ last'.hit
             /\ last'.ret = last.ret ) ]_vars

\* C3: when every attempt fails, retries + 1 attempts are made and the call
\* returns a mapping, not an exception, in which every requested symbol (under
\* its key, compared without regard to letter case) is None.
C3_AllFailGivesNone ==
    (IsPriceCall(last) /\ AllFailed(last)) =>
        /\ last.attempts = DefaultRetries + 1
        /\ last.ret.t = "dict"
        /\ \A k \in DOMAIN last.ret.v : last.ret.v[k] = PyNone
        /\ \A sym \in Requested(last) :
              \E k \in DOMAIN last.ret.v : Upper(k) = Upper(sym)

C3_Witness ==
    /\ IsPriceCall(last) /\ AllFailed(last)
    /\ last.symbols = List(<<Str(S_BTC)>>)
    /\ last.attempts = 3
    /\ last.ret = Dict([k \in {S_BTC} |-> PyNone])

\* a list with a symbol that resolves and one that does not
Mixed(c) ==
    /\ \E sym \in Requested(c) : symbol_to_id(sym) # PyNone
    /\ \E sym \in Requested(c) : symbol_to_id(sym) = PyNone

\* C4: a call on a mixed list returns one entry per requested symbol (keys
\* compared without regard to letter case), every symbol that does not resolve
\* mapped to None, whatever the provider answers and on a hit as on a miss; on
\* a miss one request is made, its ids being the resolved identifiers.
C4_MixedList ==
    (IsPriceCall(last) /\ Mixed(last)) =>
        /\ last.ret.t = "dict"
        /\ \A sym \in Requested(last) :
              \E k \in DOMAIN last.ret.v :
                 /\ Upper(k) = Upper(sym)
                 /\ (symbol_to_id(sym) = PyNone => last.ret.v[k] = PyNone)
        /\ (~last.hit =>
              /\ last.requests = 1
              /\ last.params = Str(Join(<<",">>, ResolvedIds(SymbolsList(last.symbols)))))

\* C8: the mapping returned has exactly the symbols passed as its keys.
C8_KeysAreOriginalSymbols ==
    (IsPriceCall(last) /\ last.ret.t = "dict") =>
        DOMAIN last.ret.v = Requested(last)

(* ------------------------------------------------------------------ *)
(* get_simple_price over several keys (SpecKeys)                       *)
(* ------------------------------------------------------------------ *)

\* lists that resolve to the same identifiers in another order, with repeats
\* or by another spelling, and the comma-separated form
KeyArgs == {
    List(<<Str(S_BTC)>>),
    List(<<Str(S_BTC), Str(S_BTC)>>),
    List(<<Str(S_BTC), Str(S_bitcoin)>>),
    List(<<Str(S_BTC), Str(S_ETH)>>),
    List(<<Str(S_ETH), Str(S_BTC)>>),
    List(<<Str(S_eth_padded), Str(S_NOPE), Str(S_BTC)>>),
    Str(S_BTC \o <<",", " ">> \o S_ETH) }

\* the provider answers at once, with the price of every coin asked for
KeyOutcomes(symbols, vs_currency, ttl) ==
    IF WillRequest(symbols, vs_currency, ttl)
    THEN LET ids == ResolvedIds(SymbolsList(symbols))
             quote(id) == Dict([c \in {vs_currency} |-> Num(PriceOf(id))])
         IN  { [i \in 1..(DefaultRetries + 1) |-> Dict([id \in IdSet(ids) |-> quote(id)])] }
    ELSE {[i \in 1..(DefaultRetries + 1) |-> HttpFail]}

NextKeys ==
    \/ Tick
    \/ \E symbols \in KeyArgs, vs \in Currencies, ttl \in TTLs :
         \E outcomes \in KeyOutcomes(symbols, vs, ttl) :
            GetSimplePrice(symbols, vs, ttl, outcomes)

SpecKeys == Init /\ [][NextKeys]_vars

\* C7: two calls whose symbols resolve to the same set of identifiers, in any
\* order and with repeats, with the same currency, use the same cache key: the
\* second, made within the ttl of the entry the first stored, is served from
\* the cache.
C7_SameIdSetSameKey ==
    [][ ( /\ CallStep
          /\ IsPriceCall(last) /\ IsPriceCall(last')
          /\ last.requests = 1
          /\ last.key \in DOMAIN _CACHE /\ _CACHE[last.key][1] = last.t1
          /\ IdSet(ResolvedIds(SymbolsList(last'.symbols)))
               = IdSet(ResolvedIds(SymbolsList(last.symbols)))
          /\ last'.vs = last.vs
          /\ last'.t0 - last.t1 <= last'.ttl * TicksPerSecond )
        => ( /\ last'.key = last.key
             /\ last'.hit
             /\ last'.requests = 0 ) ]_vars

(* ------------------------------------------------------------------ *)
(* symbol_to_id alone (SpecSym)                                        *)
(* ------------------------------------------------------------------ *)

\* s with its first letter in upper case
Capitalized(s) == [i \in 1..Len(s) |-> IF i = 1 THEN UpperChar(s[i]) ELSE s[i]]

S_bit_coin == <<"b","i","t"," ","c","o","i","n">>
S_BT == <<"B","T">>
S_avalanche == <<"a","v","a","l","a","n","c","h","e">>

\* every ticker and identifier in several spellings, and strings not in the map
SymInputs ==
    UNION { { k, Lower(k), SYMBOL_TO_ID[k], Upper(SYMBOL_TO_ID[k]),
              Capitalized(SYMBOL_TO_ID[k]), <<" ">> \o Lower(k) \o <<"\t">>,
              k \o SYMBOL_TO_ID[k] } : k \in Tickers }
    \cup { <<>>, <<" ">>, <<" ", "\t">>, S_NOPE, S_BT, S_bit_coin, S_avalanche,
           <<"-">>, <<",">>, <<"2">> }

InitSym ==
    /\ now = 0
    /\ _CACHE = <<>>
    /\ stored = <<>>
    /\ threads = NoThreads
    /\ session_state = <<>>
    /\ \E s \in SymInputs : last = [NoCall EXCEPT !.op = "input", !.symbols = Str(s)]

Resolve ==
    /\ last.op = "input"
    /\ last' = [last EXCEPT !.op = "symbol_to_id", !.ret = symbol_to_id(last.symbols.v)]
    /\ UNCHANGED <<now, _CACHE, stored, threads, session_state>>

NextSym == Resolve

SpecSym == InitSym /\ [][NextSym]_vars

\* C9: for every ticker of SYMBOL_TO_ID, the ticker in upper case, the ticker
\* in lower case and its identifier all resolve to SYMBOL_TO_ID[ticker].
C9_TickerCaseAndIdAgree ==
    last.op = "symbol_to_id" =>
        \A k \in Tickers :
            last.symbols.v \in {Upper(k), Lower(k), SYMBOL_TO_ID[k]}
                => last.ret = Str(SYMBOL_TO_ID[k])

\* an identifier with a hyphen and a digit, passed as it is, resolved to itself
C9_Witness ==
    /\ last.op = "symbol_to_id"
    /\ last.symbols.v = SYMBOL_TO_ID[<<"A","V","A","X">>]
    /\ last.ret = Str(last.symbols.v)

\* C10: an input that, trimmed, is neither a ticker when upper-cased nor an
\* identifier when lower-cased (the empty string included) resolves to None.
C10_UnknownIsNone ==
    last.op = "symbol_to_id" =>
        ( ( /\ \A k \in Tickers : Upper(Strip(last.symbols.v)) # k
            /\ \A k \in Tickers : Lower(Strip(last.symbols.v)) # SYMBOL_TO_ID[k] )
          => last.ret = PyNone )

\* a ticker followed by its identifier is in neither column of the map
C10_Witness ==
    /\ last.op = "symbol_to_id"
    /\ last.symbols.v = S_BTC \o S_bitcoin
    /\ last.ret = PyNone

(* ------------------------------------------------------------------ *)
(* All the public operations, one coin (SpecOps)                       *)
(* ------------------------------------------------------------------ *)

\* symbol is the argument of the call, kept as symbols; limit is not used
GetMarketData(symbol, vs_currency, ttl, outcomes) ==
    \E r \in {get_market_data(symbol, vs_currency, ttl, outcomes, _CACHE, now)} :
        Called("get_market_data", Str(symbol), vs_currency, ttl, 0, outcomes, r)

GetCoinInfo(symbol, ttl, outcomes) ==
    \E r \in {get_coin_info(symbol, ttl, outcomes, _CACHE, now)} :
        Called("get_coin_info", Str(symbol), <<>>, ttl, 0, outcomes, r)

\* search_coin always reads the cache with DEFAULT_TTL
SearchCoin(query, limit, outcomes) ==
    \E r \in {search_coin(query, limit, outcomes, _CACHE, now)} :
        Called("search_coin", Str(query), <<>>, DEFAULT_TTL, limit, outcomes, r)

\* n characters of text
LongText(n) == [i \in 1..n |-> "x"]

\* what /coins/markets may answer for a coin
MarketBodies(coin_id) ==
    { List(<<Dict([k \in {S_id, S_current_price} |->
                IF k = S_id THEN Str(coin_id) ELSE Num(PriceOf(coin_id))])>>),
      List(<<>>),
      List(<<Num(5)>>),
      Dict([k \in {S_id} |-> Str(coin_id)]),
      Dict([k \in {S_error} |-> Str(ErrorText)]),
      Dict(<<>>),
      PyNone,
      Num(5) }

\* what /coins/{id} may answer: a description longer than the cap and more
\* links than the cap, a bare record, and malformed ones
CoinInfoBodies(coin_id) ==
    { Dict([k \in {S_id, S_description, S_links} |->
            CASE k = S_id -> Str(coin_id)
              [] k = S_description ->
                    Dict([e \in {S_en} |-> Str(LongText(DescriptionCap + 1))])
              [] OTHER ->
                    Dict([h \in {S_homepage} |->
                            List([i \in 1..(HomepageCap + 1) |-> Str(<<Digits[i]>>)])])]),
      Dict([k \in {S_id} |-> Str(coin_id)]),
      Dict([k \in {S_id, S_description} |->
            IF k = S_id THEN Str(coin_id) ELSE Str(LongText(3))]),
      Dict([k \in {S_description} |-> Dict([e \in {S_en} |-> PyNone])]),
      List(<<Num(1)>>),
      Dict([k \in {S_error} |-> Str(ErrorText)]),
      Dict(<<>>),
      PyNone }

\* what /search may answer: more coins than the limit, and malformed ones
ProviderCoins == [i \in 1..(DefaultLimit + 1) |-> Dict([f \in {S_id} |-> Num(i)])]

SearchBodies ==
    { Dict([k \in {S_coins} |-> List(ProviderCoins)]),
      Dict([k \in {S_coins} |-> PyNone]),
      List(<<Num(1)>>),
      Dict([k \in {S_error} |-> Str(ErrorText)]),
      PyNone }

\* what /simple/price may answer here: every price, an empty object, a list
OpPriceBodies(ids, vs_currency) ==
    { Dict([id \in IdSet(ids) |-> Dict([c \in {vs_currency} |-> Num(PriceOf(id))])]),
      Dict(<<>>),
      List(<<Num(1)>>) }

\* the provider answers at the first attempt, or every attempt fails
OpOutcomes(wanted, bodies) ==
    IF wanted
    THEN { [i \in 1..(DefaultRetries + 1) |-> b] : b \in bodies }
         \cup { [i \in 1..(DefaultRetries + 1) |-> HttpFail] }
    ELSE { [i \in 1..(DefaultRetries + 1) |-> HttpFail] }

AllFail == [i \in 1..(DefaultRetries + 1) |-> HttpFail]

OpSymbols == {S_BTC, S_NOPE}

OpLists == {List(<<Str(S_btc)>>), List(<<Str(S_NOPE), Str(<<>>)>>)}

S_Bit == <<"B","i","t">>

OpQueries == {S_Bit, <<>>}

NextOps ==
    \/ \E symbols \in OpLists, vs \in Currencies, ttl \in TTLs :
         \E outcomes \in OpOutcomes(WillRequest(symbols, vs, ttl),
                OpPriceBodies(ResolvedIds(SymbolsList(symbols)), vs)) :
            GetSimplePrice(symbols, vs, ttl, outcomes)
    \/ \E symbols \in OpLists, vs \in Currencies, ttl \in TTLs :
         \E outcomes \in OpOutcomes(WillRequest(symbols, vs, ttl),
                OpPriceBodies(ResolvedIds(SymbolsList(symbols)), vs)) :
            BulkPrices(symbols, vs, ttl, outcomes)
    \/ \E symbol \in OpSymbols, vs \in Currencies, ttl \in TTLs :
         \E outcomes \in OpOutcomes(
                get_market_data(symbol, vs, ttl, AllFail, _CACHE, now).requests = 1,
                MarketBodies(S_bitcoin)) :
            GetMarketData(symbol, vs, ttl, outcomes)
    \/ \E symbol \in OpSymbols, ttl \in TTLs :
         \E outcomes \in OpOutcomes(
                get_coin_info(symbol, ttl, AllFail, _CACHE, now).requests = 1,
                CoinInfoBodies(S_bitcoin)) :
            GetCoinInfo(symbol, ttl, outcomes)
    \/ \E query \in OpQueries, limit \in {DefaultLimit} :
         \E outcomes \in OpOutcomes(
                search_coin(query, limit, AllFail, _CACHE, now).requests = 1,
                SearchBodies) :
            SearchCoin(query, limit, outcomes)

SpecOps == Init /\ [][NextOps]_vars

PublicOps == {"get_simple_price", "bulk_prices", "get_market_data",
              "get_coin_info", "search_coin"}

\* C5: every public operation returns a value whatever the input and whatever
\* the provider answers: no exception escapes, and when every attempt fails the
\* value is a mapping of None entries (the price operations) or an
\* {'error': ...} marker (the others).
C5_NoExceptionEscapes ==
    last.op \in PublicOps =>
        /\ ~IsRaise(last.ret)
        /\ last.ret.t = "dict"
        /\ ( AllFailed(last) =>
               IF last.op \in {"get_simple_price", "bulk_prices"}
               THEN \A k \in DOMAIN last.ret.v : last.ret.v[k] = PyNone
               ELSE DOMAIN last.ret.v = {S_error} )

\* the call is one whose symbols all fail to resolve
Unresolvable(c) ==
    CASE c.op = "get_simple_price" ->
            \A sym \in Requested(c) : symbol_to_id(sym) = PyNone
      [] c.op \in {"get_market_data", "get_coin_info"} ->
            symbol_to_id(c.symbols.v) = PyNone
      [] OTHER -> FALSE

\* the answer of each operation to symbols that do not resolve
UnresolvedAnswer(c) ==
    CASE c.op = "get_simple_price" ->
            /\ c.ret.t = "dict"
            /\ \A k \in DOMAIN c.ret.v : c.ret.v[k] = PyNone
            /\ \A sym \in Requested(c) :
                  \E k \in DOMAIN c.ret.v : Upper(k) = Upper(sym)
      [] c.op = "get_market_data" -> c.ret = ErrorText_(S_unknown_symbol_or_id)
      [] c.op = "get_coin_info" -> c.ret = ErrorText_(S_unknown_symbol)
      [] OTHER -> FALSE

\* C6: a call of get_market_data or get_coin_info with a symbol that does not
\* resolve, or of get_simple_price with a list in which no symbol resolves,
\* makes no request and no attempt, returns its error marker or all-None
\* mapping, takes no time and leaves the cache as it was.
C6_UnresolvableShortCircuits ==
    [][ (CallStep /\ Unresolvable(last'))
        => ( /\ last'.requests = 0
             /\ last'.attempts = 0
             /\ ~last'.hit
             /\ UnresolvedAnswer(last')
             /\ now' = now
             /\ _CACHE' = _CACHE ) ]_vars

\* get_market_data of an unknown symbol answered with its marker, no request
\* made, while the cache holds entries
C6_Witness ==
    /\ last.op = "get_market_data"
    /\ last.symbols = Str(S_NOPE)
    /\ last.requests = 0
    /\ last.attempts = 0
    /\ last.ret = ErrorText_(S_unknown_symbol_or_id)
    /\ DOMAIN _CACHE # {}

(* ------------------------------------------------------------------ *)
(* Properties of get_coin_info and search_coin (SpecOps)               *)
(* ------------------------------------------------------------------ *)

\* a record of get_coin_info, as opposed to an error marker
IsInfoRecord(v) == v.t = "dict" /\ S_description \in DOMAIN v.v /\ S_homepage \in DOMAIN v.v

\* C11: every record get_coin_info returns, fetched or served from the cache,
\* and every record it has stored, has a description of at most 800 characters
\* and a homepage list of at most 3 links, whatever the provider sent.
C11_InfoIsCapped ==
    /\ (last.op = "get_coin_info" /\ IsInfoRecord(last.ret)) =>
            /\ Len(last.ret.v[S_description].v) <= DescriptionCap
            /\ Len(last.ret.v[S_homepage].v) <= HomepageCap
    /\ \A k \in DOMAIN _CACHE :
            IsInfoRecord(_CACHE[k][2]) =>
                /\ Len(_CACHE[k][2].v[S_description].v) <= DescriptionCap
                /\ Len(_CACHE[k][2].v[S_homepage].v) <= HomepageCap

\* a record served from the cache whose description and links were cut: the
\* provider had sent more than the caps
C11_Witness ==
    /\ last.op = "get_coin_info"
    /\ last.hit
    /\ IsInfoRecord(last.ret)
    /\ Len(last.ret.v[S_description].v) = DescriptionCap
    /\ Len(last.ret.v[S_homepage].v) = HomepageCap

(* ------------------------------------------------------------------ *)
(* search_coin over several limits (SpecSearch)                        *)
(* ------------------------------------------------------------------ *)

S_bit == <<"b","i","t">>

SearchQueries == {S_Bit, S_bit, <<>>}

\* limits below, at and above the length of the provider's list, and one
\* below zero
Limits == {-1, 0, 1, DefaultLimit, DefaultLimit + 2}

NextSearch ==
    \E query \in SearchQueries, limit \in Limits :
        \E outcomes \in OpOutcomes(
                search_coin(query, limit, AllFail, _CACHE, now).requests = 1,
                SearchBodies) :
            SearchCoin(query, limit, outcomes)

SpecSearch == Init /\ [][NextSearch]_vars

\* a result of search_coin, as opposed to an error marker
IsSearchResult(v) == v.t = "dict" /\ S_coins \in DOMAIN v.v

\* the first n entries of s, in order
FirstEntries(s, n) == [i \in 1..(IF n < Len(s) THEN n ELSE Len(s)) |-> s[i]]

\* C12: a successful search_coin(query, limit), fetched or served from the
\* cache, returns at most limit coins: the first limit entries of the
\* provider's list, in order, for every limit.
C12_SearchTruncates ==
    (last.op = "search_coin" /\ IsSearchResult(last.ret)) =>
        /\ Len(last.ret.v[S_coins].v) <= last.limit
        /\ last.ret.v[S_coins] = List(FirstEntries(ProviderCoins, last.limit))

(* ------------------------------------------------------------------ *)
(* _request alone, for any retries and backoff (SpecReq)               *)
(* ------------------------------------------------------------------ *)

\* retries arguments are 0..MaxRetries
MaxRetries == 3

\* backoff arguments, in tenths of a second: the default and another
Backoffs == {Backoff, 5}

\* what one requests.get may give: an exception, or a body (any JSON)
AttemptOutcomes == {HttpFail, Dict(<<>>), List(<<Num(1)>>)}

\* the sequences of n outcomes
RECURSIVE OutcomeSeqs(_)
OutcomeSeqs(n) ==
    IF n = 0 THEN {<<>>}
    ELSE {Append(s, o) : s \in OutcomeSeqs(n - 1), o \in AttemptOutcomes}

InitReq ==
    /\ now = 0
    /\ _CACHE = <<>>
    /\ stored = <<>>
    /\ threads = NoThreads
    /\ session_state = <<>>
    /\ \E retries \in 0..MaxRetries, backoff \in Backoffs :
         \E outcomes \in OutcomeSeqs(retries + 1) :
            last = [op |-> "input", outcomes |-> outcomes, retries |-> retries,
                    backoff |-> backoff, t0 |-> 0, ret |-> PyNone, attempts |-> 0,
                    sleeps |-> <<>>]

\* one call of _request: the time it sleeps passes
Request ==
    /\ last.op = "input"
    /\ \E r \in {RequestFrom(last.outcomes, 0, last.retries, last.backoff)} :
         /\ last' = [last EXCEPT !.op = "_request", !.t0 = now, !.ret = r.ret,
                                 !.attempts = r.attempts, !.sleeps = r.sleeps]
         /\ now' = now + SumSeq(r.sleeps)
    /\ UNCHANGED <<_CACHE, stored, threads, session_state>>

NextReq == Request

SpecReq == InitReq /\ [][NextReq]_vars

\* the attempts of a call that succeed
Successes(c) == {i \in 1..Len(c.outcomes) : c.outcomes[i].t # HttpFail.t}

\* C13: if attempt k is the first to succeed, _request makes exactly k
\* attempts and returns that response; if none succeeds it makes retries + 1
\* attempts and returns the error marker. Its sleeps are backoff * i after
\* failed attempt i, for every failed attempt but the last one allowed: none
\* after a success, none after the final failure.
C13_StopsAtFirstSuccess ==
    last.op = "_request" =>
        LET made == IF Successes(last) = {} THEN last.retries + 1
                    ELSE CHOOSE k \in Successes(last) : \A j \in Successes(last) : k <= j
        IN  /\ last.attempts = made
            /\ last.ret = IF Successes(last) = {}
                          THEN Dict([k \in {S_error} |-> Str(ErrorText)])
                          ELSE last.outcomes[made]
            /\ last.sleeps = [i \in 1..(made - 1) |-> last.backoff * i]
            /\ \A i \in 1..(Len(last.sleeps) - 1) : last.sleeps[i] < last.sleeps[i + 1]
            /\ now = last.t0 + SumSeq(last.sleeps)

\* two failures, then a response at the third and last attempt
C13_Witness ==
    /\ last.op = "_request"
    /\ last.retries = DefaultRetries
    /\ last.backoff = Backoff
    /\ Successes(last) = {3}
    /\ last.attempts = 3
    /\ last.sleeps = <<8, 16>>
    /\ last.ret.t = "list"

(* ------------------------------------------------------------------ *)
(* What the operations do to the cache                                 *)
(* ------------------------------------------------------------------ *)

CachingOps == {"get_simple_price", "get_market_data", "get_coin_info", "search_coin"}

\* the value of the call reports a failure: None for every symbol, or an
\* error marker
FailureValue(c) ==
    /\ c.ret.t = "dict"
    /\ IF c.op \in {"get_simple_price", "bulk_prices"}
       THEN \A k \in DOMAIN c.ret.v : c.ret.v[k] = PyNone
       ELSE DOMAIN c.ret.v = {S_error}

\* C14: after a call that missed the cache, asked the provider and returned
\* None values or an error marker, the cache holds no entry for the call's
\* key, so that the next identical call asks the provider again.
C14_FailedFetchWritesNothing ==
    (last.op \in CachingOps /\ last.requests = 1 /\ FailureValue(last)) =>
        last.key \notin DOMAIN _CACHE

\* the call asked the provider and its last attempt got a response
FetchSucceeded(c) ==
    /\ c.requests = 1
    /\ c.attempts >= 1
    /\ c.outcomes[c.attempts] # HttpFail.t

\* C15: in every call, an entry that appears or changes is the entry of the
\* call's own key, stored at the end of a fetch that got a response; an entry
\* that disappears is the entry of the call's own key, older than the call's
\* ttl when the call read it; the entries of all other keys stay as they
\* were. Between calls the cache does not change.
C15_CacheFrame ==
    [][ IF CallStep
        THEN \A k \in DOMAIN _CACHE \cup DOMAIN _CACHE' :
                /\ (k # last'.key) =>
                       /\ k \in DOMAIN _CACHE
                       /\ k \in DOMAIN _CACHE'
                       /\ _CACHE'[k] = _CACHE[k]
                /\ (k \in DOMAIN _CACHE' /\
                        (k \notin DOMAIN _CACHE \/ _CACHE'[k] # _CACHE[k])) =>
                       /\ FetchSucceeded(last')
                       /\ _CACHE'[k][1] = now'
                /\ (k \in DOMAIN _CACHE /\ k \notin DOMAIN _CACHE') =>
                       last'.t0 - _CACHE[k][1] > last'.ttl * TicksPerSecond
        ELSE _CACHE' = _CACHE ]_vars

\* a call that found its entry expired, dropped it and stored nothing, while
\* the entries of other keys stayed
C15_Witness ==
    /\ last.op \in CachingOps
    /\ last.had >= 0
    /\ last.t0 - last.had > last.ttl * TicksPerSecond
    /\ last.requests = 1
    /\ last.key \notin DOMAIN _CACHE
    /\ DOMAIN _CACHE # {}

\* C16: a call of get_simple_price served from the cache returns the mapping
\* that the fetch path produces from the stored response for the same
\* symbols, whenever the fetch path produces a mapping from it.
C16_HitEqualsFetch ==
    (IsPriceCall(last) /\ last.hit) =>
        LET fresh == FetchProjection(_CACHE[last.key][2],
                                     SymbolMapping(SymbolsList(last.symbols)), last.vs)
        IN  fresh.t = "dict" => last.ret = fresh

(* ------------------------------------------------------------------ *)
(* Two threads in get_simple_price (SpecThreads)                       *)
(*                                                                    *)
(* _CACHE is shared and nothing locks it: each access to it            *)
(* (_CACHE.get, _CACHE.pop, _CACHE[key] = ...) is one step, and the    *)
(* threads' steps interleave freely. A thread that sleeps in _request  *)
(* wakes no sooner than its backoff.                                   *)
(* ------------------------------------------------------------------ *)

Threads == 1..2

\* _CACHE.get(key) found nothing
NoRec == <<>>

\* a thread entering get_simple_price
StartThread == [pc |-> "start", rec |-> NoRec, t |-> 0, attempt |-> 0, wake |-> 0,
                data |-> PyNone, requests |-> 0, attempts |-> 0, hit |-> FALSE,
                ret |-> PyNone]

\* the calls the threads make together
ThreadArgs == {List(<<Str(S_btc)>>), List(<<Str(S_NOPE)>>)}

\* what one requests.get gives a thread: an exception, or the price
ThreadOutcomes(ids, vs_currency) ==
    { HttpFail,
      Dict([id \in IdSet(ids) |-> Dict([c \in {vs_currency} |-> Num(PriceOf(id))])]) }

\* ThreadCached serving any record it read, without the expiry test of line 54
ThreadCachedStale(rec, ttl, t) ==
    IF rec = NoRec THEN PyNone ELSE rec[2]

\* lines 51-58: what _cache_get returns to a thread from the record it read
ThreadCached(rec, ttl, t) ==
    IF rec = NoRec THEN PyNone
    ELSE IF ~CacheFresh(rec[1], ttl, t) THEN PyNone
    ELSE rec[2]

ThreadKey == SimplePriceKey(ResolvedIds(SymbolsList(threads.call.symbols)), threads.call.vs)

ThreadMapping == SymbolMapping(SymbolsList(threads.call.symbols))

\* thread i becomes th
SetThread(i, th) == threads' = [threads EXCEPT !.th[i] = th]

\* both threads start the same call, once the calls before have returned
Begin(symbols, vs_currency, ttl) ==
    /\ \A i \in DOMAIN threads.th : threads.th[i].pc = "done"
    /\ threads' = [call |-> [symbols |-> symbols, vs |-> vs_currency, ttl |-> ttl],
                   th |-> [i \in Threads |-> StartThread]]
    /\ UNCHANGED <<now, _CACHE, last, stored, session_state>>

\* line 50: rec = _CACHE.get(key)
ThreadRead(i) ==
    /\ i \in DOMAIN threads.th
    /\ threads.th[i].pc = "start"
    /\ SetThread(i, [threads.th[i] EXCEPT
            !.pc = "read",
            !.rec = IF ThreadKey \in DOMAIN _CACHE THEN _CACHE[ThreadKey] ELSE NoRec])
    /\ UNCHANGED <<now, _CACHE, last, stored, session_state>>

\* lines 51-58 and 122-127: the expiry test at the time it is made, the pop
\* of an expired record, and the return on a hit or with no ids
ThreadCheck(i) ==
    /\ i \in DOMAIN threads.th
    /\ threads.th[i].pc = "read"
    /\ LET th == threads.th[i]
           ttl == threads.call.ttl
           cached == ThreadCached(th.rec, ttl, now)
           expired == th.rec # NoRec /\ ~CacheFresh(th.rec[1], ttl, now)
       IN  /\ _CACHE' = IF expired
                        THEN [k \in DOMAIN _CACHE \ {ThreadKey} |-> _CACHE[k]]
                        ELSE _CACHE
           /\ SetThread(i,
                 IF cached.t # "None"
                 THEN [th EXCEPT !.pc = "done", !.t = now, !.hit = TRUE,
                                 !.ret = HitProjection(cached, ThreadMapping,
                                                       threads.call.vs)]
                 ELSE IF ResolvedIds(SymbolsList(threads.call.symbols)) = <<>>
                 THEN [th EXCEPT !.pc = "done", !.t = now,
                                 !.ret = AllNone(ThreadMapping)]
                 ELSE [th EXCEPT !.pc = "miss", !.t = now])
    /\ UNCHANGED <<now, last, stored, session_state>>

\* lines 67-75 and 130-132: one requests.get of _request and what follows it
ThreadAttempt(i, outcome) ==
    /\ i \in DOMAIN threads.th
    /\ threads.th[i].pc = "miss"
    /\ LET th == [threads.th[i] EXCEPT !.requests = 1, !.attempts = @ + 1]
       IN  SetThread(i,
             IF outcome.t # HttpFail.t
             THEN IF FailedData(outcome) = "no"
                  THEN [th EXCEPT !.pc = "fetched", !.data = outcome]
                  ELSE [th EXCEPT !.pc = "done", !.data = outcome,
                                  !.ret = IF FailedData(outcome) = "yes"
                                          THEN AllNone(ThreadMapping)
                                          ELSE Raise("TypeError")]
             ELSE IF th.attempt = DefaultRetries
             THEN [th EXCEPT !.pc = "done",
                             !.data = Dict([k \in {S_error} |-> Str(ErrorText)]),
                             !.ret = AllNone(ThreadMapping)]
             ELSE [th EXCEPT !.pc = "sleeping", !.attempt = @ + 1,
                             !.wake = now + Backoff * (th.attempt + 1)])
    /\ UNCHANGED <<now, _CACHE, last, stored, session_state>>

\* line 75: time.sleep is over
ThreadWake(i) ==
    /\ i \in DOMAIN threads.th
    /\ threads.th[i].pc = "sleeping"
    /\ now >= threads.th[i].wake
    /\ SetThread(i, [threads.th[i] EXCEPT !.pc = "miss"])
    /\ UNCHANGED <<now, _CACHE, last, stored, session_state>>

\* lines 134-141: _cache_set and the mapping returned
ThreadStore(i) ==
    /\ i \in DOMAIN threads.th
    /\ threads.th[i].pc = "fetched"
    /\ _CACHE' = _cache_set(_CACHE, ThreadKey, threads.th[i].data, now)
    /\ stored' = [k \in DOMAIN stored \cup {ThreadKey} |->
                     IF k = ThreadKey THEN now ELSE stored[k]]
    /\ SetThread(i, [threads.th[i] EXCEPT
            !.pc = "done",
            !.ret = FetchProjection(threads.th[i].data, ThreadMapping, threads.call.vs)])
    /\ UNCHANGED <<now, last, session_state>>

NextThreads ==
    \/ Tick
    \/ \E symbols \in ThreadArgs, vs \in Currencies, ttl \in TTLs : Begin(symbols, vs, ttl)
    \/ \E i \in Threads : ThreadRead(i)
    \/ \E i \in Threads : ThreadCheck(i)
    \/ \E i \in DOMAIN threads.th :
         \E outcome \in ThreadOutcomes(ResolvedIds(SymbolsList(threads.call.symbols)),
                                       threads.call.vs) :
            ThreadAttempt(i, outcome)
    \/ \E i \in Threads : ThreadWake(i)
    \/ \E i \in Threads : ThreadStore(i)

SpecThreads == Init /\ [][NextThreads]_vars

\* the record thread th read was missing, or expired when th tested it
ThreadMissed(th) ==
    \/ th.rec = NoRec
    \/ th.t - th.rec[1] > threads.call.ttl * TicksPerSecond

\* C17: with two threads making the same call and no lock on the cache, a
\* thread that has returned asked the provider exactly when the record it had
\* read itself was missing or expired, whatever the other thread stored in
\* the meantime; so once both have missed, both ask.
C17_EveryMissAsks ==
    \A i \in DOMAIN threads.th :
        threads.th[i].pc = "done" =>
            IF ThreadMissed(threads.th[i])
            THEN /\ ~threads.th[i].hit
                 /\ (ResolvedIds(SymbolsList(threads.call.symbols)) # <<>>) =>
                       /\ threads.th[i].requests = 1
                       /\ threads.th[i].attempts >= 1
            ELSE /\ threads.th[i].hit
                 /\ threads.th[i].requests = 0
                 /\ threads.th[i].attempts = 0

\* both threads found the same expired record, both asked the provider and
\* both returned the price: two network requests for one call made twice
C17_Witness ==
    /\ DOMAIN threads.th = Threads
    /\ \A i \in Threads :
          /\ threads.th[i].pc = "done"
          /\ threads.th[i].rec # NoRec
          /\ ThreadMissed(threads.th[i])
          /\ threads.th[i].requests = 1
          /\ threads.th[i].attempts = 1
          /\ threads.th[i].ret = Dict([k \in {S_BTC} |-> Num(PriceOf(S_bitcoin))])
    /\ threads.th[1].rec = threads.th[2].rec

(* ------------------------------------------------------------------ *)
(* crypto_buddy.py: the console's rule-based handle_query (SpecChat)   *)
(* ------------------------------------------------------------------ *)

\* crypto_db, in the order of the dict; scores are the floats 3.0 .. 8.0
crypto_db == <<
    [name |-> <<"B","i","t","c","o","i","n">>, symbol |-> <<"B","T","C">>,
     price_trend |-> "rising", market_cap |-> "high", energy_use |-> "high",
     sustainability_score |-> 3],
    [name |-> <<"E","t","h","e","r","e","u","m">>, symbol |-> <<"E","T","H">>,
     price_trend |-> "stable", market_cap |-> "high", energy_use |-> "medium",
     sustainability_score |-> 6],
    [name |-> <<"C","a","r","d","a","n","o">>, symbol |-> <<"A","D","A">>,
     price_trend |-> "rising", market_cap |-> "medium", energy_use |-> "low",
     sustainability_score |-> 8],
    [name |-> <<"P","o","l","k","a","d","o","t">>, symbol |-> <<"D","O","T">>,
     price_trend |-> "falling", market_cap |-> "medium", energy_use |-> "low",
     sustainability_score |-> 7] >>

\* max(coins, key = sustainability_score): the first of the highest
MaxByScore(coins) ==
    coins[CHOOSE i \in 1..Len(coins) :
            /\ \A j \in 1..Len(coins) :
                  coins[j].sustainability_score <= coins[i].sustainability_score
            /\ \A j \in 1..(i - 1) :
                  coins[j].sustainability_score < coins[i].sustainability_score]

Names(coins) == [i \in 1..Len(coins) |-> coins[i].name]

top_by_sustainability(db) == MaxByScore(db).name

trending_coins(db) == SelectSeq(db, LAMBDA c : c.price_trend = "rising")

profitable_coins(db) ==
    SelectSeq(db, LAMBDA c : c.price_trend = "rising" /\ c.market_cap = "high")

sustainable_candidates(db) ==
    SelectSeq(db, LAMBDA c : c.energy_use = "low" /\ c.sustainability_score > 7)

\* the words handle_query looks for
W_hi == <<"h","i">>
W_hello == <<"h","e","l","l","o">>
W_hey == <<"h","e","y">>
W_good_morning == <<"g","o","o","d"," ","m","o","r","n","i","n","g">>
W_good_afternoon == <<"g","o","o","d"," ","a","f","t","e","r","n","o","o","n">>
W_trending == <<"t","r","e","n","d","i","n","g">>
W_trending_up == <<"t","r","e","n","d","i","n","g"," ","u","p">>
W_trends == <<"t","r","e","n","d","s">>
W_sustainab == <<"s","u","s","t","a","i","n","a","b">>
W_eco == <<"e","c","o">>
W_green == <<"g","r","e","e","n">>
W_energy == <<"e","n","e","r","g","y">>
W_long_term_hyphen == <<"l","o","n","g","-","t","e","r","m">>
W_long_term == <<"l","o","n","g"," ","t","e","r","m">>
W_best_for_growth == <<"b","e","s","t"," ","f","o","r"," ","g","r","o","w","t","h">>
W_profit == <<"p","r","o","f","i","t">>
W_buy == <<"b","u","y">>
W_help == <<"h","e","l","p">>
W_what_can_you_do == <<"w","h","a","t"," ","c","a","n"," ","y","o","u"," ","d","o">>

GreetingWords == {W_hi, W_hello, W_hey, W_good_morning, W_good_afternoon}

\* the answer of handle_query: the text it picks (kind) and the coins it
\* puts into that text
handle_query(user_query, db) ==
    LET q == Strip(Lower(user_query))
        has(w) == IsSubstring(w, q)
        trending == trending_coins(db)
        cand == sustainable_candidates(db)
        prof == profitable_coins(db)
        named == SelectSeq(db, LAMBDA c : has(Lower(c.name)) \/ has(Lower(c.symbol)))
    IN  IF \E w \in GreetingWords : has(w)
        THEN [kind |-> "greeting"]
        ELSE IF has(W_trending) \/ has(W_trending_up) \/ has(W_trends)
        THEN IF trending # <<>>
             THEN [kind |-> "trending", coins |-> Names(trending)]
             ELSE [kind |-> "no trending"]
        ELSE IF has(W_sustainab) \/ has(W_eco) \/ has(W_green) \/ has(W_energy)
        THEN IF cand # <<>>
             THEN [kind |-> "sustainable picks", coins |-> Names(cand),
                   top |-> top_by_sustainability(db)]
             ELSE [kind |-> "most sustainable", top |-> top_by_sustainability(db)]
        ELSE IF has(W_long_term_hyphen) \/ has(W_long_term) \/ has(W_best_for_growth)
                \/ has(W_profit) \/ has(W_buy)
        THEN IF prof # <<>>
             THEN [kind |-> "long-term growth", best |-> MaxByScore(prof)]
             ELSE IF trending # <<>>
             THEN [kind |-> "rising instead", best |-> MaxByScore(trending)]
             ELSE [kind |-> "no long-term pick"]
        ELSE IF named # <<>>
        THEN [kind |-> "summary", best |-> named[1]]
        ELSE IF has(W_help) \/ has(W_what_can_you_do)
        THEN [kind |-> "help"]
        ELSE [kind |-> "fallback"]

\* the questions the help and fallback texts suggest
Q_trending_up ==
    <<"W","h","i","c","h"," ","c","r","y","p","t","o"," ","i","s"," ","t","r","e","n","d","i","n","g"," ","u","p","?">>
Q_most_sustainable ==
    <<"W","h","i","c","h"," ","i","s"," ","m","o","s","t"," ","s","u","s","t","a","i","n","a","b","l","e","?">>
Q_most_sustainable_coin ==
    <<"W","h","a","t","'","s"," ","t","h","e"," ","m","o","s","t"," ","s","u","s","t","a","i","n","a","b","l","e"," ","c","o","i","n","?">>
Q_long_term_growth ==
    <<"W","h","i","c","h"," ","s","h","o","u","l","d"," ","I"," ","b","u","y"," ","f","o","r"," ","l","o","n","g","-","t","e","r","m"," ","g","r","o","w","t","h","?">>

\* other things a user types
OtherQueries == {
    <<"h","e","l","l","o">>,
    <<"G","o","o","d"," ","m","o","r","n","i","n","g">>,
    <<"h","e","l","p">>,
    <<"W","h","a","t"," ","c","a","n"," ","y","o","u"," ","d","o">>,
    <<"T","e","l","l"," ","m","e"," ","a","b","o","u","t"," ","C","a","r","d","a","n","o">>,
    <<"p","r","i","c","e"," ","o","f"," ","d","o","t">>,
    <<"i","s"," ","e","t","h"," ","g","r","e","e","n">>,
    <<"a","n","y"," ","p","r","o","f","i","t">>,
    <<"t","r","e","n","d","s">>,
    <<"e","n","e","r","g","y"," ","u","s","e">>,
    <<"x","y","z">>,
    <<"l","o","n","g"," ","t","e","r","m"," ","p","i","c","k">>,
    <<"b","e","s","t"," ","f","o","r"," ","g","r","o","w","t","h">>,
    <<"t","r","e","n","d","i","n","g">>,
    <<"c","o","i","n","s"," ","t","o"," ","b","u","y">>,
    <<"e","c","o">>,
    <<"b","t","c">> }

AdvertisedQueries ==
    {Q_trending_up, Q_most_sustainable, Q_most_sustainable_coin, Q_long_term_growth}

\* every query as typed, in upper case, in lower case and with blanks around
ChatInputs ==
    UNION { {q, Upper(q), Lower(q), <<" ">> \o q \o <<" ", " ">>} :
            q \in AdvertisedQueries \cup OtherQueries }
    \cup { <<>> }

InitChat ==
    /\ now = 0
    /\ _CACHE = <<>>
    /\ stored = <<>>
    /\ threads = NoThreads
    /\ session_state = <<>>
    /\ \E q \in ChatInputs : last = [op |-> "input", query |-> q, ret |-> [kind |-> "none"]]

\* line 135: response = handle_query(user, crypto_db)
Ask ==
    /\ last.op = "input"
    /\ last' = [last EXCEPT !.op = "handle_query",
                            !.ret = handle_query(last.query, crypto_db)]
    /\ UNCHANGED <<now, _CACHE, stored, threads, session_state>>

NextChat == Ask

SpecChat == InitChat /\ [][NextChat]_vars

\* C18: handle_query answers 'Which crypto is trending up?' with the rising
\* coins, 'Which is most sustainable?' and 'What's the most sustainable coin?'
\* with the sustainability answer, and 'Which should I buy for long-term
\* growth?' with the long-term recommendation.
C18_AdvertisedQuestionsRouted ==
    last.op = "handle_query" =>
        /\ (last.query = Q_trending_up) =>
               /\ last.ret.kind = "trending"
               /\ last.ret.coins = Names(trending_coins(crypto_db))
        /\ (last.query \in {Q_most_sustainable, Q_most_sustainable_coin}) =>
               last.ret.kind \in {"sustainable picks", "most sustainable"}
        /\ (last.query = Q_long_term_growth) =>
               last.ret.kind \in {"long-term growth", "rising instead", "no long-term pick"}

(* ------------------------------------------------------------------ *)
(* ui_streamlit.py: the chat form and its history (SpecUi)             *)
(* ------------------------------------------------------------------ *)

\* crypto_db of ui_streamlit.py, in the order of the dict
ui_crypto_db == <<
    [coin |-> <<"b","i","t","c","o","i","n">>, trend |-> "up"],
    [coin |-> <<"e","t","h","e","r","e","u","m">>, trend |-> "down"],
    [coin |-> <<"d","o","g","e","c","o","i","n">>, trend |-> "up"],
    [coin |-> <<"s","o","l","a","n","a">>, trend |-> "up"] >>

W_trending_down == <<"t","r","e","n","d","i","n","g"," ","d","o","w","n">>

\* handle_query of ui_streamlit.py: the text it picks (kind) and the coins it
\* puts into that text, title-cased
ui_handle_query(query, db) ==
    LET q == Lower(query)
        named == SelectSeq(db, LAMBDA c : IsSubstring(c.coin, q))
        up == SelectSeq(db, LAMBDA c : c.trend = "up")
        down == SelectSeq(db, LAMBDA c : c.trend = "down")
    IN  IF named # <<>>
        THEN [kind |-> "coin", coins |-> <<Capitalized(named[1].coin)>>]
        ELSE IF IsSubstring(W_trending_up, q)
        THEN [kind |-> "trending up",
              coins |-> [i \in 1..Len(up) |-> Capitalized(up[i].coin)]]
        ELSE IF IsSubstring(W_trending_down, q)
        THEN [kind |-> "trending down",
              coins |-> [i \in 1..Len(down) |-> Capitalized(down[i].coin)]]
        ELSE [kind |-> "sorry", coins |-> <<>>]

\* the history stops growing here
MaxMessages == 6

Sessions == 1..2

\* what a user may have typed when the script runs
UiInputs == {<<>>, <<" ">>, <<"B","i","t","c","o","i","n">>, <<"w","h","a","t"," ","i","s"," ","t","r","e","n","d","i","n","g"," ","u","p">>,
             <<"h","i">>}

\* lines 45-48 with a form that always appends when submitted
AfterSubmitAlways(messages, submitted, user_input) ==
    IF submitted
    THEN messages \o << <<"You", user_input>>,
                       <<"CryptoBuddy", ui_handle_query(user_input, ui_crypto_db)>> >>
    ELSE messages

\* lines 45-48: the history after the form
AfterSubmit(messages, submitted, user_input) ==
    IF submitted /\ user_input # <<>>
    THEN messages \o << <<"You", user_input>>,
                       <<"CryptoBuddy", ui_handle_query(user_input, ui_crypto_db)>> >>
    ELSE messages

\* st.session_state.messages of session s; [] until the script has run
Messages(s) == IF s \in DOMAIN session_state THEN session_state[s] ELSE <<>>

\* one run of the script for session s: lines 37-38 create the history if
\* the session has none, lines 41-48 are the form
Run(s, submitted, user_input) ==
    /\ Len(Messages(s)) + 2 <= MaxMessages
    /\ session_state' =
          [k \in DOMAIN session_state \cup {s} |->
              IF k = s THEN AfterSubmit(Messages(s), submitted, user_input)
              ELSE session_state[k]]
    /\ last' = [op |-> "ui_run", session |-> s, submitted |-> submitted,
                user_input |-> user_input]
    /\ UNCHANGED <<now, _CACHE, stored, threads>>

InitUi ==
    /\ now = 0
    /\ _CACHE = <<>>
    /\ stored = <<>>
    /\ threads = NoThreads
    /\ session_state = <<>>
    /\ last = [op |-> "none", session |-> 0, submitted |-> FALSE, user_input |-> <<>>]

NextUi ==
    \E s \in Sessions, submitted \in BOOLEAN, user_input \in UiInputs :
        Run(s, submitted, user_input)

SpecUi == InitUi /\ [][NextUi]_vars

\* the history is pairs: You with what was typed, then CryptoBuddy with the
\* answer to it
InPairs(messages) ==
    /\ Len(messages) % 2 = 0
    /\ \A i \in 1..Len(messages) :
          IF i % 2 = 1
          THEN messages[i][1] = "You" /\ messages[i][2] # <<>>
          ELSE /\ messages[i][1] = "CryptoBuddy"
               /\ messages[i][2] = ui_handle_query(messages[i - 1][2], ui_crypto_db)

\* C19: in every run of the script, a session's history is extended by
\* ('You', input) and ('CryptoBuddy', answer), in this order, when the run is
\* a submission of that session with a non-empty input, and is left as it was
\* otherwise; so the history only grows, has even length and alternates
\* You / CryptoBuddy in the order of the submissions.
C19_HistoryGrowsByPairs ==
    [][ \A s \in Sessions :
          /\ Messages(s)' =
                IF last'.session = s /\ last'.submitted /\ last'.user_input # <<>>
                THEN Messages(s) \o
                       << <<"You", last'.user_input>>,
                          <<"CryptoBuddy",
                            ui_handle_query(last'.user_input, ui_crypto_db)>> >>
                ELSE Messages(s)
          /\ InPairs(Messages(s)') ]_vars

\* an empty submission that left a history of two exchanges as it was
C19_Witness ==
    /\ last.op = "ui_run"
    /\ last.submitted
    /\ last.user_input = <<>>
    /\ Len(Messages(last.session)) = 4
    /\ Messages(last.session)[1][2] # Messages(last.session)[3][2]

====
